---- MODULE Spec2Model ----
(***************************************************************************)
(* The LC-3 virtual machine of src/src/main.rs: the register file, the     *)
(* 64K-word memory, the fetch-decode-execute loop of VM::run with one      *)
(* action per opcode handler and per trap routine.  Words are 16 bits wide *)
(* and every addition wraps modulo 65536.                                  *)
(***************************************************************************)
EXTENDS Integers, Sequences, FiniteSets

VARIABLES
    memory,     \* VM.memory, kept as the words written so far; any other word is 0
    registers,  \* VM.registers, indexed by Register
    instr,      \* the local `instr` of the loop in VM::run
    address,    \* the local `address` of the PUTS and PUTSP scans
    console,    \* the character codes printed so far
    phase,      \* where the program is: new, loaded, fetch, exec, puts, putsp, halted, panicked
    steps       \* the number of fetches made so far

vars == <<memory, registers, instr, address, console, phase, steps>>

(***************************************************************************)
(* Bounds of the model.                                                    *)
(***************************************************************************)
\* the longest program image, in data words
ImageLen == 2
\* the most instructions fetched in one run
MaxSteps == 3

(***************************************************************************)
(* Program constants.                                                      *)
(***************************************************************************)
MEMORY_MAX == 65536
REGISTER_COUNT == 10
R0 == 0
R7 == 7
Pc == 8
Cond == 9
Pos == 1
Zro == 2
Neg == 4
\* the entry address VM::run gives PC
PC_START == 12288

(***************************************************************************)
(* 16-bit arithmetic.                                                      *)
(***************************************************************************)
RECURSIVE Pow2(_)
Pow2(n) == IF n = 0 THEN 1 ELSE 2 * Pow2(n - 1)

\* u16::wrapping_add
wrapping_add(a, b) == (a + b) % MEMORY_MAX

\* x >> n on u16
Shr(x, n) == x \div Pow2(n)

\* x << n on u16: the bits shifted out are lost
Shl(x, n) == (x * Pow2(n)) % MEMORY_MAX

RECURSIVE BitAndN(_, _, _)
BitAndN(a, b, n) ==
    IF n = 0 THEN 0
    ELSE ((a % 2) * (b % 2)) + 2 * BitAndN(a \div 2, b \div 2, n - 1)

\* a & b on u16
BitAnd(a, b) == BitAndN(a, b, 16)

RECURSIVE BitOrN(_, _, _)
BitOrN(a, b, n) ==
    IF n = 0 THEN 0
    ELSE (IF (a % 2) + (b % 2) > 0 THEN 1 ELSE 0) + 2 * BitOrN(a \div 2, b \div 2, n - 1)

\* a | b on u16
BitOr(a, b) == BitOrN(a, b, 16)

\* !a on u16
BitNot(a) == (MEMORY_MAX - 1) - a

\* sign_extend that tests the bit above the field instead of its top bit
sign_extend_WrongBit(x, bit_count) ==
    IF BitAnd(Shr(x, bit_count), 1) = 1
    THEN BitOr(x, Shl(MEMORY_MAX - 1, bit_count))
    ELSE x

\* sign_extend(x, bit_count)
sign_extend(x, bit_count) ==
    IF BitAnd(Shr(x, bit_count - 1), 1) = 1
    THEN BitOr(x, Shl(MEMORY_MAX - 1, bit_count))
    ELSE x

(***************************************************************************)
(* Decoding.                                                               *)
(***************************************************************************)
\* the Err(()) of the try_from conversions
Err == "Err"

\* Register::try_from: the register index, or Err
Register_try_from(value) == IF value \in 0 .. 9 THEN value ELSE Err

OpCodeNames ==
    <<"Br", "Add", "Ld", "St", "Jsr", "And", "Ldr", "Str",
      "Rti", "Not", "Ldi", "Sti", "Jmp", "Res", "Lea", "Trap">>

\* a conversion that has no arm for the two reserved opcodes
OpCode_try_from_NoReserved(value) ==
    IF value \in (0 .. 15) \ {8, 13} THEN OpCodeNames[value + 1] ELSE Err

\* OpCode::try_from: the opcode, or Err
OpCode_try_from(value) == IF value \in 0 .. 15 THEN OpCodeNames[value + 1] ELSE Err

\* TrapCode::try_from: the trap routine, or Err
TrapCode_try_from(value) ==
    CASE value = 32 -> "Getc"
      [] value = 33 -> "Out"
      [] value = 34 -> "Puts"
      [] value = 35 -> "In"
      [] value = 36 -> "Putsp"
      [] value = 37 -> "Halt"
      [] OTHER -> Err

\* the opcode of the fetched instruction: OpCode::try_from(instr >> 12)
op == OpCode_try_from(Shr(instr, 12))

\* the register fields of the fetched instruction
DR == Register_try_from(BitAnd(Shr(instr, 9), 7))
SR1 == Register_try_from(BitAnd(Shr(instr, 6), 7))
SR2 == Register_try_from(BitAnd(instr, 7))

(***************************************************************************)
(* Registers and memory.                                                   *)
(***************************************************************************)
\* VM::get_register
get_register(regs, reg) == regs[reg]

\* VM::set_register
set_register(regs, reg, value) == [regs EXCEPT ![reg] = value]

\* VM::mem_read: the word at the address; a word never written is 0
mem_read(mem, a) == IF a \in DOMAIN mem THEN mem[a] ELSE 0

\* VM::mem_write: overwrites the word at the address
mem_write(mem, a, value) ==
    [x \in (DOMAIN mem) \cup {a} |-> IF x = a THEN value ELSE mem[x]]

\* update_flags with the sign test dropped: a value with bit 15 set counts as positive
update_flags_NoNeg(regs, r) ==
    LET val == get_register(regs, r)
        flag == IF val = 0 THEN Zro ELSE Pos
    IN  set_register(regs, Cond, flag)

\* VM::update_flags
update_flags(regs, r) ==
    LET val == get_register(regs, r)
        flag == IF val = 0 THEN Zro
                ELSE IF BitAnd(Shr(val, 15), 1) = 1 THEN Neg
                ELSE Pos
    IN  set_register(regs, Cond, flag)

(***************************************************************************)
(* Construction, image loading, start of the run.                          *)
(***************************************************************************)
\* the words an image is made of: instructions of every opcode, and data
ImageWords ==
    {      1,   513,  1025,  1537,  2049,  2561,  3073,  3585,  4094, \* BR
        4133,  4129,  4159,  4672,                                   \* ADD
       20512, 20543, 20992,                                            \* AND
       36927, 37439,                                                   \* NOT
       49152, 49216, 49600,                                            \* JMP
       18433, 20479, 16384, 16832,                                     \* JSR, JSRR
        8192,  8703,                                                   \* LD
       40960, 41471,                                                   \* LDI
       24576, 24703,                                                   \* LDR
       57347, 57855,                                                   \* LEA
       12288, 12799,                                                   \* ST
       45056,                                                          \* STI
       28672, 32767,                                                   \* STR
       61472, 61473, 61474, 61475, 61476, 61477, 61593,                \* TRAP
       32768, 53248 }                                                  \* RTI, RES

Images == UNION {[1 .. n -> ImageWords] : n \in 0 .. ImageLen}

\* Memory.load_image: words[i] goes to origin + i, in order
RECURSIVE load_image(_, _, _)
load_image(mem, origin, words) ==
    IF words = <<>> THEN mem
    ELSE load_image(mem_write(mem, origin, Head(words)),
                    wrapping_add(origin, 1), Tail(words))

\* VM::new
Init ==
    /\ memory = <<>>
    /\ registers = [r \in 0 .. (REGISTER_COUNT - 1) |-> 0]
    /\ instr = 0
    /\ address = 0
    /\ console = <<>>
    /\ phase = "new"
    /\ steps = 0

\* the image loader: one image placed at the entry address before the run
LoadImage ==
    /\ phase = "new"
    /\ \E words \in Images : memory' = load_image(memory, PC_START, words)
    /\ phase' = "loaded"
    /\ UNCHANGED <<registers, instr, address, console, steps>>

\* the start of the run without the initialisation of COND
RunStart_NoCond ==
    /\ phase = "loaded"
    /\ registers' = set_register(registers, Pc, PC_START)
    /\ phase' = "fetch"
    /\ UNCHANGED <<memory, instr, address, console, steps>>

\* VM::run, before the loop
RunStart ==
    /\ phase = "loaded"
    /\ registers' = set_register(set_register(registers, Cond, Zro), Pc, PC_START)
    /\ phase' = "fetch"
    /\ UNCHANGED <<memory, instr, address, console, steps>>

\* the fetch without the advance of PC
Fetch_NoAdvance ==
    /\ phase = "fetch"
    /\ steps < MaxSteps
    /\ instr' = mem_read(memory, get_register(registers, Pc))
    /\ phase' = "exec"
    /\ steps' = steps + 1
    /\ UNCHANGED <<memory, registers, address, console>>

\* the head of the loop: read the instruction and advance PC
Fetch ==
    /\ phase = "fetch"
    /\ steps < MaxSteps
    /\ LET pc == get_register(registers, Pc)
       IN  /\ instr' = mem_read(memory, pc)
           /\ registers' = set_register(registers, Pc, wrapping_add(pc, 1))
    /\ phase' = "exec"
    /\ steps' = steps + 1
    /\ UNCHANGED <<memory, address, console>>

(***************************************************************************)
(* The opcode handlers.  Each runs on the instruction Fetch has read, with *)
(* PC already advanced.                                                    *)
(***************************************************************************)
\* the registers after `value` is written to `r` and the flags are updated from it
write_and_flag(regs, r, value) == update_flags(set_register(regs, r, value), r)

\* ADD that never looks at bit 5 and always adds SR2
Add_AlwaysRegister ==
    /\ phase = "exec"
    /\ op = "Add"
    /\ registers' = write_and_flag(registers, DR,
                                   wrapping_add(get_register(registers, SR1),
                                                get_register(registers, SR2)))
    /\ phase' = "fetch"
    /\ UNCHANGED <<memory, instr, address, console, steps>>

\* OpCode::Add
Add ==
    /\ phase = "exec"
    /\ op = "Add"
    /\ LET imm_flag == BitAnd(Shr(instr, 5), 1)
           result ==
               IF imm_flag = 1
               THEN wrapping_add(get_register(registers, SR1),
                                 sign_extend(BitAnd(instr, 31), 5))
               ELSE wrapping_add(get_register(registers, SR1),
                                 get_register(registers, SR2))
       IN  registers' = write_and_flag(registers, DR, result)
    /\ phase' = "fetch"
    /\ UNCHANGED <<memory, instr, address, console, steps>>

\* OpCode::And
And ==
    /\ phase = "exec"
    /\ op = "And"
    /\ LET imm_flag == BitAnd(Shr(instr, 5), 1)
           result ==
               IF imm_flag = 1
               THEN BitAnd(get_register(registers, SR1),
                           sign_extend(BitAnd(instr, 31), 5))
               ELSE BitAnd(get_register(registers, SR1),
                           get_register(registers, SR2))
       IN  registers' = write_and_flag(registers, DR, result)
    /\ phase' = "fetch"
    /\ UNCHANGED <<memory, instr, address, console, steps>>

\* OpCode::Not
Not ==
    /\ phase = "exec"
    /\ op = "Not"
    /\ registers' = write_and_flag(registers, DR, BitNot(get_register(registers, SR1)))
    /\ phase' = "fetch"
    /\ UNCHANGED <<memory, instr, address, console, steps>>

\* OpCode::Br
Br ==
    /\ phase = "exec"
    /\ op = "Br"
    /\ LET pc_offset == sign_extend(BitAnd(instr, 511), 9)
           cond_flag == BitAnd(Shr(instr, 9), 7)
           pc == get_register(registers, Pc)
       IN  registers' =
               IF get_register(registers, Cond) = cond_flag
               THEN set_register(registers, Pc, wrapping_add(pc, pc_offset))
               ELSE registers
    /\ phase' = "fetch"
    /\ UNCHANGED <<memory, instr, address, console, steps>>

\* OpCode::Jmp
Jmp ==
    /\ phase = "exec"
    /\ op = "Jmp"
    /\ registers' = set_register(registers, Pc, get_register(registers, SR1))
    /\ phase' = "fetch"
    /\ UNCHANGED <<memory, instr, address, console, steps>>

\* JSR that saves PC into R7 after the jump instead of before it
Jsr_SaveAfterJump ==
    /\ phase = "exec"
    /\ op = "Jsr"
    /\ LET pc == get_register(registers, Pc)
           long_flag == BitAnd(Shr(instr, 11), 1)
           jumped ==
               IF long_flag = 1
               THEN set_register(registers, Pc,
                                 wrapping_add(pc, sign_extend(BitAnd(instr, 2047), 11)))
               ELSE set_register(registers, Pc, get_register(registers, SR1))
       IN  registers' = set_register(jumped, R7, get_register(jumped, Pc))
    /\ phase' = "fetch"
    /\ UNCHANGED <<memory, instr, address, console, steps>>

\* OpCode::Jsr
Jsr ==
    /\ phase = "exec"
    /\ op = "Jsr"
    /\ LET pc == get_register(registers, Pc)
           saved == set_register(registers, R7, pc)
           long_flag == BitAnd(Shr(instr, 11), 1)
       IN  registers' =
               IF long_flag = 1
               THEN set_register(saved, Pc,
                                 wrapping_add(pc, sign_extend(BitAnd(instr, 2047), 11)))
               ELSE set_register(saved, Pc, get_register(saved, SR1))
    /\ phase' = "fetch"
    /\ UNCHANGED <<memory, instr, address, console, steps>>

\* OpCode::Ld
Ld ==
    /\ phase = "exec"
    /\ op = "Ld"
    /\ LET pc_offset == sign_extend(BitAnd(instr, 511), 9)
           pc == get_register(registers, Pc)
           value == mem_read(memory, wrapping_add(pc, pc_offset))
       IN  registers' = write_and_flag(registers, DR, value)
    /\ phase' = "fetch"
    /\ UNCHANGED <<memory, instr, address, console, steps>>

\* LDI that reads memory once, as LD does
Ldi_SingleRead ==
    /\ phase = "exec"
    /\ op = "Ldi"
    /\ LET pc_offset == sign_extend(BitAnd(instr, 511), 9)
           pc == get_register(registers, Pc)
           addr == mem_read(memory, wrapping_add(pc, pc_offset))
       IN  registers' = write_and_flag(registers, DR, addr)
    /\ phase' = "fetch"
    /\ UNCHANGED <<memory, instr, address, console, steps>>

\* OpCode::Ldi
Ldi ==
    /\ phase = "exec"
    /\ op = "Ldi"
    /\ LET pc_offset == sign_extend(BitAnd(instr, 511), 9)
           pc == get_register(registers, Pc)
           addr == mem_read(memory, wrapping_add(pc, pc_offset))
           val == mem_read(memory, addr)
       IN  registers' = write_and_flag(registers, DR, val)
    /\ phase' = "fetch"
    /\ UNCHANGED <<memory, instr, address, console, steps>>

\* OpCode::Ldr
Ldr ==
    /\ phase = "exec"
    /\ op = "Ldr"
    /\ LET offset == sign_extend(BitAnd(instr, 63), 6)
           addr == wrapping_add(get_register(registers, SR1), offset)
           value == mem_read(memory, addr)
       IN  registers' = write_and_flag(registers, DR, value)
    /\ phase' = "fetch"
    /\ UNCHANGED <<memory, instr, address, console, steps>>

\* OpCode::Lea
Lea ==
    /\ phase = "exec"
    /\ op = "Lea"
    /\ LET pc_offset == sign_extend(BitAnd(instr, 511), 9)
           pc == get_register(registers, Pc)
       IN  registers' = write_and_flag(registers, DR, wrapping_add(pc, pc_offset))
    /\ phase' = "fetch"
    /\ UNCHANGED <<memory, instr, address, console, steps>>

\* ST that updates the flags from its register, as the loads do
St_UpdatesFlags ==
    /\ phase = "exec"
    /\ op = "St"
    /\ LET pc_offset == sign_extend(BitAnd(instr, 511), 9)
           value == get_register(registers, DR)
           pc == get_register(registers, Pc)
       IN  memory' = mem_write(memory, wrapping_add(pc, pc_offset), value)
    /\ registers' = update_flags(registers, DR)
    /\ phase' = "fetch"
    /\ UNCHANGED <<instr, address, console, steps>>

\* OpCode::St
St ==
    /\ phase = "exec"
    /\ op = "St"
    /\ LET pc_offset == sign_extend(BitAnd(instr, 511), 9)
           value == get_register(registers, DR)
           pc == get_register(registers, Pc)
       IN  memory' = mem_write(memory, wrapping_add(pc, pc_offset), value)
    /\ phase' = "fetch"
    /\ UNCHANGED <<registers, instr, address, console, steps>>

\* STI that stores at the PC-relative address itself, as ST does
Sti_Direct ==
    /\ phase = "exec"
    /\ op = "Sti"
    /\ LET pc_offset == sign_extend(BitAnd(instr, 511), 9)
           value == get_register(registers, DR)
           pc == get_register(registers, Pc)
           addr == wrapping_add(pc, pc_offset)
       IN  memory' = mem_write(memory, addr, value)
    /\ phase' = "fetch"
    /\ UNCHANGED <<registers, instr, address, console, steps>>

\* OpCode::Sti
Sti ==
    /\ phase = "exec"
    /\ op = "Sti"
    /\ LET pc_offset == sign_extend(BitAnd(instr, 511), 9)
           value == get_register(registers, DR)
           pc == get_register(registers, Pc)
           addr == wrapping_add(pc, pc_offset)
       IN  memory' = mem_write(memory, mem_read(memory, addr), value)
    /\ phase' = "fetch"
    /\ UNCHANGED <<registers, instr, address, console, steps>>

\* OpCode::Str
Str ==
    /\ phase = "exec"
    /\ op = "Str"
    /\ LET base_offset == sign_extend(BitAnd(instr, 63), 6)
           addr == wrapping_add(get_register(registers, SR1), base_offset)
       IN  memory' = mem_write(memory, addr, get_register(registers, DR))
    /\ phase' = "fetch"
    /\ UNCHANGED <<registers, instr, address, console, steps>>

\* RES and RTI taken as no-ops: the loop goes on
ResRti_Continue ==
    /\ phase = "exec"
    /\ op \in {"Res", "Rti", Err}
    /\ phase' = "fetch"
    /\ UNCHANGED <<memory, registers, instr, address, console, steps>>

\* OpCode::Res | OpCode::Rti, and the Err arm of the opcode decode: break
ResRti ==
    /\ phase = "exec"
    /\ op \in {"Res", "Rti", Err}
    /\ phase' = "halted"
    /\ UNCHANGED <<memory, registers, instr, address, console, steps>>

(***************************************************************************)
(* OpCode::Trap: R7 takes PC, then the vector selects the routine.         *)
(***************************************************************************)
\* the characters the keyboard can deliver (Unicode scalar values)
Chars == {65, 32767, 65536, 98304}

\* "Enter a character: "
Prompt == <<69, 110, 116, 101, 114, 32, 97, 32, 99, 104, 97, 114, 97, 99, 116, 101, 114, 58, 32>>

\* "HALT\n"
HaltMsg == <<72, 65, 76, 84, 10>>

\* the trap routine of the fetched instruction: TrapCode::try_from(instr & 0xFF)
trap == TrapCode_try_from(BitAnd(instr, 255))

\* the Trap arm without the save of the return address
trap_entry_NoSave(regs) == regs

\* the registers after the first statement of the Trap arm
trap_entry(regs) == set_register(regs, R7, get_register(regs, Pc))

\* TrapCode::try_from(..).unwrap() on a vector that is none of the six: panic
TrapInvalid ==
    /\ phase = "exec"
    /\ op = "Trap"
    /\ trap = Err
    /\ registers' = trap_entry(registers)
    /\ phase' = "panicked"
    /\ UNCHANGED <<memory, instr, address, console, steps>>

\* TrapCode::Getc
TrapGetc ==
    /\ phase = "exec"
    /\ op = "Trap"
    /\ trap = "Getc"
    /\ \E ch \in Chars :
           registers' = write_and_flag(trap_entry(registers), R0, ch % MEMORY_MAX)
    /\ phase' = "fetch"
    /\ UNCHANGED <<memory, instr, address, console, steps>>

\* TrapCode::Out
TrapOut ==
    /\ phase = "exec"
    /\ op = "Trap"
    /\ trap = "Out"
    /\ registers' = trap_entry(registers)
    /\ console' = Append(console, get_register(registers', R0) % 256)
    /\ phase' = "fetch"
    /\ UNCHANGED <<memory, instr, address, steps>>

\* PUTS whose scan starts one word after the address in R0
TrapPuts_SkipFirst ==
    /\ phase = "exec"
    /\ op = "Trap"
    /\ trap = "Puts"
    /\ registers' = trap_entry(registers)
    /\ address' = wrapping_add(get_register(registers', R0), 1)
    /\ phase' = "puts"
    /\ UNCHANGED <<memory, instr, console, steps>>

\* TrapCode::Puts, up to the loop
TrapPuts ==
    /\ phase = "exec"
    /\ op = "Trap"
    /\ trap = "Puts"
    /\ registers' = trap_entry(registers)
    /\ address' = get_register(registers', R0)
    /\ phase' = "puts"
    /\ UNCHANGED <<memory, instr, console, steps>>

\* a turn of the PUTS loop that prints without advancing the address
PutsStep_NoAdvance ==
    /\ phase = "puts"
    /\ LET ch == mem_read(memory, address)
       IN  IF ch = 0
           THEN /\ phase' = "fetch"
                /\ UNCHANGED <<address, console>>
           ELSE /\ console' = Append(console, ch % 256)
                /\ address' = address
                /\ phase' = "puts"
    /\ UNCHANGED <<memory, registers, instr, steps>>

\* one turn of the loop of TrapCode::Puts
PutsStep ==
    /\ phase = "puts"
    /\ LET ch == mem_read(memory, address)
       IN  IF ch = 0
           THEN /\ phase' = "fetch"
                /\ UNCHANGED <<address, console>>
           ELSE /\ console' = Append(console, ch % 256)
                /\ address' = wrapping_add(address, 1)
                /\ phase' = "puts"
    /\ UNCHANGED <<memory, registers, instr, steps>>

\* TrapCode::In
TrapIn ==
    /\ phase = "exec"
    /\ op = "Trap"
    /\ trap = "In"
    /\ \E ch \in Chars :
           /\ console' = Append(console \o Prompt, ch)
           /\ registers' = write_and_flag(trap_entry(registers), R0, ch % MEMORY_MAX)
    /\ phase' = "fetch"
    /\ UNCHANGED <<memory, instr, address, steps>>

\* TrapCode::Putsp, up to the loop
TrapPutsp ==
    /\ phase = "exec"
    /\ op = "Trap"
    /\ trap = "Putsp"
    /\ registers' = trap_entry(registers)
    /\ address' = get_register(registers', R0)
    /\ phase' = "putsp"
    /\ UNCHANGED <<memory, instr, console, steps>>

\* one turn of the loop of TrapCode::Putsp
PutspStep ==
    /\ phase = "putsp"
    /\ LET word == mem_read(memory, address)
           char1 == BitAnd(word, 255)
           char2 == Shr(word, 8)
       IN  IF word = 0
           THEN /\ phase' = "fetch"
                /\ UNCHANGED <<address, console>>
           ELSE /\ console' = IF char2 # 0
                              THEN console \o <<char1, char2>>
                              ELSE Append(console, char1)
                /\ address' = wrapping_add(address, 1)
                /\ phase' = "putsp"
    /\ UNCHANGED <<memory, registers, instr, steps>>

\* HALT that prints its message and goes on with the loop
TrapHalt_NoBreak ==
    /\ phase = "exec"
    /\ op = "Trap"
    /\ trap = "Halt"
    /\ registers' = trap_entry(registers)
    /\ console' = console \o HaltMsg
    /\ phase' = "fetch"
    /\ UNCHANGED <<memory, instr, address, steps>>

\* TrapCode::Halt
TrapHalt ==
    /\ phase = "exec"
    /\ op = "Trap"
    /\ trap = "Halt"
    /\ registers' = trap_entry(registers)
    /\ console' = console \o HaltMsg
    /\ phase' = "halted"
    /\ UNCHANGED <<memory, instr, address, steps>>

Next ==
    \/ LoadImage
    \/ RunStart
    \/ Fetch
    \/ Add
    \/ And
    \/ Not
    \/ Br
    \/ Jmp
    \/ Jsr
    \/ Ld
    \/ Ldi
    \/ Ldr
    \/ Lea
    \/ St
    \/ Sti
    \/ Str
    \/ ResRti
    \/ TrapInvalid
    \/ TrapGetc
    \/ TrapOut
    \/ TrapPuts
    \/ PutsStep
    \/ TrapIn
    \/ TrapPutsp
    \/ PutspStep
    \/ TrapHalt

Spec == Init /\ [][Next]_vars

(***************************************************************************)
(* The memory accessors as src/src/main.rs has them: both bodies are       *)
(* todo!(), which panics.  SpecSrc calls them on a new VM with an address  *)
(* and a value drawn from bounded sets.                                    *)
(***************************************************************************)
ProbeAddresses == {a * 257 : a \in 0 .. 255}
ProbeValues == {0, 1, 32768, 65535}

\* VM::new, with the address of the access about to be made
InitSrc ==
    /\ memory = <<>>
    /\ registers = [r \in 0 .. (REGISTER_COUNT - 1) |-> 0]
    /\ instr = 0
    /\ address \in ProbeAddresses
    /\ console = <<>>
    /\ phase = "call"
    /\ steps = 0

\* VM::mem_read(address) as written: todo!()
MemReadTodo ==
    /\ phase = "call"
    /\ phase' = "panicked"
    /\ UNCHANGED <<memory, registers, instr, address, console, steps>>

\* VM::mem_write(address, value) as written: todo!()
MemWriteTodo ==
    /\ phase = "call"
    /\ \E value \in ProbeValues : phase' = "panicked"
    /\ UNCHANGED <<memory, registers, instr, address, console, steps>>

NextSrc == MemReadTodo \/ MemWriteTodo

SpecSrc == InitSrc /\ [][NextSrc]_vars

(***************************************************************************)
(* Arithmetic used to state the properties: instruction fields and signed  *)
(* values by division and remainder, independent of the bit operators the  *)
(* handlers use.                                                           *)
(***************************************************************************)
\* the field of `width` bits of x whose lowest bit is bit `lo`
Field(x, lo, width) == (x \div Pow2(lo)) % Pow2(width)

\* bit i of x
Bit(x, i) == (x \div Pow2(i)) % 2

\* the 16-bit word that is x plus the two's-complement value of the n-bit field f
AddSigned(x, f, n) ==
    IF f >= Pow2(n - 1) THEN (x + f - Pow2(n) + MEMORY_MAX) % MEMORY_MAX
    ELSE (x + f) % MEMORY_MAX

\* the flag that classifies a 16-bit value
FlagOf(v) == IF v = 0 THEN 2 ELSE IF v >= 32768 THEN 4 ELSE 1

\* the opcode bits [15:12] of the fetched instruction, and its trap vector
OpBits == Field(instr, 12, 4)
Vector == Field(instr, 0, 8)

\* an opcode handler is taking its step on the fetched instruction
Executing(opbits) == phase = "exec" /\ OpBits = opbits /\ phase' # "exec"

\* the instruction in `instr` has been executed completely
Completed == phase = "fetch" /\ steps > 0

(***************************************************************************)
(* C1.  BR takes the branch exactly when COND and the condbits field share *)
(* a set bit: then PC becomes incremented PC plus the sign-extended        *)
(* PCoffset9, modulo 65536; otherwise PC keeps the incremented value.      *)
(* The handler compares COND with condbits for equality instead.           *)
(***************************************************************************)
C1_BranchWhenCondMasked ==
    [][Executing(0) =>
         registers'[Pc] =
             IF \E i \in 0 .. 2 : Bit(registers[Cond], i) = 1 /\ Bit(Field(instr, 9, 3), i) = 1
             THEN AddSigned(registers[Pc], Field(instr, 0, 9), 9)
             ELSE registers[Pc]]_vars

(***************************************************************************)
(* C2.  A TRAP whose vector is none of 0x20..0x25 ends the run with a      *)
(* fatal condition and leaves memory and every register as they were when  *)
(* the handler began.  The handler writes R7 before it checks the vector.  *)
(***************************************************************************)
C2_InvalidTrapLeavesState ==
    [][(Executing(15) /\ Vector \notin 32 .. 37) =>
         /\ phase' = "panicked"
         /\ memory' = memory
         /\ registers' = registers]_vars

(***************************************************************************)
(* C3.  TRAP 0x25 (HALT) leaves the loop, and once halted nothing is       *)
(* fetched or executed and no register or memory word changes.             *)
(***************************************************************************)
C3_HaltIsTerminal ==
    [][/\ (Executing(15) /\ Vector = 37) => phase' = "halted"
       /\ phase = "halted" =>
              /\ phase' = "halted"
              /\ steps' = steps
              /\ instr' = instr
              /\ registers' = registers
              /\ memory' = memory]_vars

C3_Witness == phase = "halted" /\ instr = 61477 /\ steps = 2

(***************************************************************************)
(* C4.  mem_read and mem_write have no failure mode: neither ever aborts   *)
(* the run.  As written both are todo!() and panic on every call.          *)
(***************************************************************************)
C4_AccessNeverAborts == phase # "panicked"

(***************************************************************************)
(* C5.  After ADD, AND, NOT, LD, LDI, LDR, LEA, and the GETC and IN traps, *)
(* COND classifies the value just written to the destination register:     *)
(* ZRO for 0, NEG for bit 15 set, POS otherwise.                           *)
(***************************************************************************)
SetsFlags ==
    \/ OpBits \in {1, 5, 9, 2, 10, 6, 14}
    \/ OpBits = 15 /\ Vector \in {32, 35}

Destination == IF OpBits = 15 THEN 0 ELSE Field(instr, 9, 3)

C5_FlagsMatchWrittenValue ==
    (Completed /\ SetsFlags) => registers[Cond] = FlagOf(registers[Destination])

C5_Witness ==
    /\ Completed
    /\ instr = 61472
    /\ registers[R0] = 32768
    /\ registers[Cond] = Neg

C7_PcIncrementedBeforeBody ==
    [][LET P == registers[Pc]
           T9 == AddSigned(P, Field(instr, 0, 9), 9)
           D == Field(instr, 9, 3)
       IN  /\ (phase = "fetch" /\ phase' = "exec") =>
                  /\ instr' = mem_read(memory, P)
                  /\ registers' = [registers EXCEPT ![Pc] = (P + 1) % 65536]
           /\ (phase \in {"exec", "puts", "putsp"} /\ ~(phase = "exec" /\ OpBits \in {0, 4, 12})) =>
                  registers'[Pc] = P
           /\ Executing(0) => registers'[Pc] \in {P, T9}
           /\ (Executing(4) /\ Bit(instr, 11) = 1) =>
                  registers'[Pc] = AddSigned(P, Field(instr, 0, 11), 11)
           /\ Executing(2) => registers'[D] = mem_read(memory, T9)
           /\ Executing(10) => registers'[D] = mem_read(memory, mem_read(memory, T9))
           /\ Executing(14) => registers'[D] = T9
           /\ Executing(3) => mem_read(memory', T9) = registers[D]
           /\ Executing(11) => mem_read(memory', mem_read(memory, T9)) = registers[D]]_vars

\* a fetch at 0xFFFF has wrapped PC to 0
C7_Witness == phase = "exec" /\ registers[Pc] = 0

(***************************************************************************)
(* C8.  After JSR or JSRR, R7 holds the PC value of just after the fetch   *)
(* increment, for both values of bit 11.                                   *)
(***************************************************************************)
C8_JsrSavesReturnAddress ==
    [][Executing(4) => (phase' = "fetch" /\ registers'[R7] = registers[Pc])]_vars

C8_Witness ==
    /\ Completed
    /\ instr = 16384
    /\ steps = 2
    /\ registers[R7] = PC_START + 2

(***************************************************************************)
(* C9.  LDI: with A the word at incremented PC + sign-extended PCoffset9   *)
(* and V the word at A, the instruction sets DR to V and COND from V and   *)
(* leaves memory unchanged.                                                *)
(***************************************************************************)
C9_LdiLoadsIndirect ==
    [][Executing(10) =>
         LET A == mem_read(memory, AddSigned(registers[Pc], Field(instr, 0, 9), 9))
             V == mem_read(memory, A)
         IN  /\ registers'[Field(instr, 9, 3)] = V
             /\ registers'[Cond] = FlagOf(V)
             /\ memory' = memory]_vars

C9_Witness ==
    /\ Completed
    /\ instr = 40960
    /\ registers[R0] = 40960
    /\ registers[Cond] = Neg

(***************************************************************************)
(* C10.  ADD and AND take their second operand from the sign-extended imm5 *)
(* when bit 5 is 1 and from SR2 when it is 0; ADD adds modulo 65536, so    *)
(* 0x7FFF + 1 gives 0x8000 with COND = NEG, and ADD R0 <- R0 + 5 as the    *)
(* first instruction gives R0 = 5, COND = POS, PC = 0x3001.                *)
(***************************************************************************)
C10_AddAndOperandSelect ==
    [][LET a == registers[Field(instr, 6, 3)]
           b == IF Bit(instr, 5) = 1
                THEN AddSigned(0, Field(instr, 0, 5), 5)
                ELSE registers[Field(instr, 0, 3)]
           r == registers'[Field(instr, 9, 3)]
       IN  /\ Executing(1) => r = (a + b) % 65536
           /\ Executing(5) => \A i \in 0 .. 15 : Bit(r, i) = Bit(a, i) * Bit(b, i)
           /\ (Executing(1) /\ instr = 4129 /\ a = 32767) =>
                  (r = 32768 /\ registers'[Cond] = Neg)
           /\ (Executing(1) /\ instr = 4133 /\ steps = 1) =>
                  /\ registers'[R0] = 5
                  /\ registers'[Cond] = Pos
                  /\ registers'[Pc] = 12289]_vars

C10_Witness ==
    /\ Completed
    /\ instr = 4129
    /\ registers[R0] = 32768
    /\ registers[Cond] = Neg
(***************************************************************************)
(* sign_extend on its own: SpecExtend calls it, as the handlers do, on the *)
(* low 5, 6, 9 or 11 bits of a word.  `instr` holds the word, `steps` the  *)
(* bit count of the call and `address` the value returned.                 *)
(***************************************************************************)
\* the widths of the immediate and offset fields
FieldWidths == {5, 6, 9, 11}

\* every value of the widest field
InitExtend ==
    /\ memory = <<>>
    /\ registers = [r \in 0 .. (REGISTER_COUNT - 1) |-> 0]
    /\ instr \in 0 .. 2047
    /\ address = 0
    /\ console = <<>>
    /\ phase = "call"
    /\ steps = 0

\* sign_extend(instr & mask, bit_count), mask = 0x1F, 0x3F, 0x1FF or 0x7FF
SignExtendCall ==
    /\ phase = "call"
    /\ \E bit_count \in FieldWidths :
           /\ address' = sign_extend(BitAnd(instr, Pow2(bit_count) - 1), bit_count)
           /\ steps' = bit_count
    /\ phase' = "returned"
    /\ UNCHANGED <<memory, registers, instr, console>>

NextExtend == SignExtendCall

SpecExtend == InitExtend /\ [][NextExtend]_vars

(***************************************************************************)
(* C11.  sign_extend(x, n) for n in {5, 6, 9, 11} and x in 0 .. 2^n - 1:   *)
(* with bit n-1 of x set the result is the 16-bit two's complement of      *)
(* x - 2^n, with every bit above bit n-1 set; otherwise it is x.           *)
(***************************************************************************)
C11_SignExtendIsTwosComplement ==
    phase = "returned" =>
        LET n == steps
            x == instr % Pow2(n)
        IN  IF x >= Pow2(n - 1)
            THEN /\ address = 65536 + (x - Pow2(n))
                 /\ \A i \in n .. 15 : Bit(address, i) = 1
                 /\ address % Pow2(n) = x
            ELSE address = x

\* the 9-bit field 0x1FE (-2) has been extended to 0xFFFE
C11_Witness == phase = "returned" /\ steps = 9 /\ instr = 510 /\ address = 65534

(***************************************************************************)
(* C12.  COND is rewritten by ADD, AND, NOT, LD, LDI, LDR, LEA and the     *)
(* GETC and IN traps, from the value they write; the fetch, BR, JMP,       *)
(* JSR/JSRR, ST, STI, STR, the TRAP dispatch and the OUT, PUTS, PUTSP and  *)
(* HALT traps leave COND as it was.                                        *)
(***************************************************************************)
C12_CondWrittenOnlyByFlagOps ==
    [][LET FlagStep == phase = "exec" /\ SetsFlags
       IN  /\ FlagStep => registers'[Cond] = FlagOf(registers'[Destination])
           /\ (~FlagStep /\ phase \notin {"new", "loaded"}) =>
                  registers'[Cond] = registers[Cond]]_vars

\* a store has completed with COND still NEG although its register holds 0
C12_Witness ==
    /\ Completed
    /\ instr = 12288
    /\ registers[R0] = 0
    /\ registers[Cond] = Neg

(***************************************************************************)
(* C13.  An instruction with opcode RTI (0b1000) or RES (0b1101) halts the *)
(* engine with no other effect: its body changes no register, no memory    *)
(* word and prints nothing, and no further instruction is fetched.         *)
(***************************************************************************)
C13_ReservedOpcodesHalt ==
    [][/\ (phase = "exec" /\ OpBits \in {8, 13}) =>
              /\ phase' = "halted"
              /\ registers' = registers
              /\ memory' = memory
              /\ console' = console
       /\ (phase = "halted" /\ OpBits \in {8, 13}) =>
              /\ phase' = "halted"
              /\ steps' = steps
              /\ registers' = registers
              /\ memory' = memory]_vars

\* RES as the second instruction has halted the engine
C13_Witness == phase = "halted" /\ instr = 53248 /\ steps = 2

(***************************************************************************)
(* The process boundary: main.  `address` counts the image arguments still *)
(* to be read; `memory` holds what the images read so far have populated.  *)
(* The VM is constructed after the loop over the arguments.                *)
(***************************************************************************)
\* the largest number of image arguments
MaxArgs == 2

\* the words and origins of the images named on the command line
MainWords == {4133, 57855, 61474, 61477}
MainOrigins == {PC_START, PC_START + 1}
MainImages == UNION {[1 .. n -> MainWords] : n \in 0 .. ImageLen}

\* entry of main with args.len() - 1 image arguments
InitMain ==
    /\ memory = <<>>
    /\ registers = [r \in 0 .. (REGISTER_COUNT - 1) |-> 0]
    /\ instr = 0
    /\ address \in 0 .. MaxArgs
    /\ console = <<>>
    /\ phase = "main"
    /\ steps = 0

\* args.len() < 2: usage message and exit(2)
MainUsage ==
    /\ phase = "main"
    /\ address = 0
    /\ phase' = "exit2"
    /\ UNCHANGED <<memory, registers, instr, address, console, steps>>

\* read_image(filename) returns true: the next image is loaded
MainReadImage ==
    /\ phase \in {"main", "reading"}
    /\ address > 0
    /\ \E origin \in MainOrigins, words \in MainImages :
           memory' = load_image(memory, origin, words)
    /\ address' = address - 1
    /\ phase' = "reading"
    /\ UNCHANGED <<registers, instr, console, steps>>

\* read_image(filename) returns false: message and exit(1)
MainReadFail ==
    /\ phase \in {"main", "reading"}
    /\ address > 0
    /\ phase' = "exit1"
    /\ UNCHANGED <<memory, registers, instr, address, console, steps>>

\* let mut vm = VM::new(): the engine's memory and registers are fresh zeros
MainNewVm ==
    /\ phase = "reading"
    /\ address = 0
    /\ memory' = <<>>
    /\ registers' = [r \in 0 .. (REGISTER_COUNT - 1) |-> 0]
    /\ phase' = "loaded"
    /\ UNCHANGED <<instr, address, console, steps>>

\* vm.run() over the fresh VM: every word fetched is 0x0000, a BR
NextMain ==
    \/ MainUsage
    \/ MainReadImage
    \/ MainReadFail
    \/ MainNewVm
    \/ RunStart
    \/ Fetch
    \/ Br

SpecMain == InitMain /\ [][NextMain]_vars

(***************************************************************************)
(* C14.  At the process boundary the images are loaded, in the order       *)
(* given, before any instruction executes; after a failed load no          *)
(* instruction is ever fetched; and when every load succeeded the engine   *)
(* runs over the memory the images populated.                              *)
(***************************************************************************)
C14_EngineRunsOverLoadedImages ==
    [][/\ (phase \in {"main", "reading"} /\ address > 0) =>
              phase' \in {"reading", "exit1"}
       /\ phase \in {"exit1", "exit2"} => phase' = phase /\ steps' = steps
       /\ (phase = "reading" /\ phase' = "loaded") =>
              /\ address = 0
              /\ \A a \in DOMAIN memory : mem_read(memory', a) = memory[a]]_vars

(***************************************************************************)
(* C15.  During execution memory changes only through the stores: a step   *)
(* of ST, STI or STR writes the value of SR to exactly one address (ST:    *)
(* incremented PC + sext(PCoffset9); STI: the word read there; STR: BaseR  *)
(* + sext(offset6); modulo 65536) and changes no register; every other     *)
(* step of the run leaves every memory word unchanged.                     *)
(***************************************************************************)
\* the address a store instruction writes to
StoreTarget ==
    LET Rel == AddSigned(registers[Pc], Field(instr, 0, 9), 9)
    IN  IF OpBits = 3 THEN Rel
        ELSE IF OpBits = 11 THEN mem_read(memory, Rel)
        ELSE AddSigned(registers[Field(instr, 6, 3)], Field(instr, 0, 6), 6)

C15_MemoryChangesOnlyByStores ==
    [][IF phase = "exec" /\ OpBits \in {3, 7, 11}
       THEN /\ \A a \in DOMAIN memory \cup DOMAIN memory' \cup {StoreTarget} :
                   mem_read(memory', a) =
                       IF a = StoreTarget THEN registers[Field(instr, 9, 3)]
                       ELSE mem_read(memory, a)
            /\ registers' = registers
       ELSE phase # "new" => memory' = memory]_vars

\* ADD R0, R0, #5 then STI R0, #0: the pointer word at 0x3002 is 0, so
\* address 0 holds 5
C15_Witness ==
    /\ Completed
    /\ instr = 45056
    /\ registers[R0] = 5
    /\ mem_read(memory, 0) = 5
    /\ mem_read(memory, PC_START + 2) = 0

(***************************************************************************)
(* The trap routines on their own: the Trap arm is entered on a TRAP       *)
(* instruction with some value in R0 and some memory content, and is       *)
(* followed until control is back in the loop.  The memory is a short      *)
(* string in an otherwise zero memory, or the memory an image of 65536     *)
(* non-zero words has populated.  A scan is followed for MaxScan words.    *)
(***************************************************************************)
\* the number of words a scan is followed for
MaxScan == 4

\* the TRAP instructions of the five routines that return
ScanTraps == {61472, 61473, 61474, 61475, 61476}

\* memories with a string: "H", "Hi" packed, "!" at 0; "AB" across the wrap
StringMemories ==
    { <<>>,
      load_image(<<>>, 0, <<72, 26952, 33>>),
      load_image(<<>>, 65535, <<65, 66>>) }

\* the values of R0 with the string memories
StringStarts == {0, 1, 2, 3, 65535}

\* the memory in which every word is the instruction PUTS
FullMemory == [a \in 0 .. (MEMORY_MAX - 1) |-> 61474]

\* the state in which the Trap arm is entered, the first instruction fetched
InitTrap ==
    /\ instr \in ScanTraps
    /\ \E r0 \in StringStarts :
           /\ registers = [r \in 0 .. (REGISTER_COUNT - 1) |->
                              IF r = R0 THEN r0
                              ELSE IF r = Pc THEN PC_START + 1
                              ELSE IF r = Cond THEN Zro ELSE 0]
           /\ \/ memory \in StringMemories
              \/ r0 = 0 /\ instr \in {61474, 61476} /\ memory = FullMemory
    /\ address = 0
    /\ console = <<>>
    /\ phase = "exec"
    /\ steps = 1

\* the scan has gone over fewer than MaxScan words
ScanFollowed ==
    (address - get_register(registers, R0) + MEMORY_MAX) % MEMORY_MAX < MaxScan

\* the turns of the two loops, while the scan is followed
PutsScan == ScanFollowed /\ PutsStep
PutspScan == ScanFollowed /\ PutspStep

NextTrap ==
    \/ TrapGetc
    \/ TrapOut
    \/ TrapPuts
    \/ PutsScan
    \/ TrapIn
    \/ TrapPutsp
    \/ PutspScan

SpecTrap == InitTrap /\ [][NextTrap]_vars

\* some word of `mem` is zero: a word never written, or one written as zero
HasZeroWord(mem) == mem \notin [0 .. (MEMORY_MAX - 1) -> 1 .. (MEMORY_MAX - 1)]

RECURSIVE ZeroDist(_, _)
ZeroDist(mem, a) ==
    IF mem_read(mem, a) = 0 THEN 0
    ELSE 1 + ZeroDist(mem, (a + 1) % MEMORY_MAX)

PutsOutput ==
    LET start == registers[R0]
        k == (address - start + MEMORY_MAX) % MEMORY_MAX
        word(i) == mem_read(memory, (start + i - 1) % MEMORY_MAX)
    IN  /\ Len(console) = k
        /\ \A i \in 1 .. k : word(i) # 0 /\ console[i] = word(i) % 256
        /\ phase = "fetch" => mem_read(memory, address) = 0

C17_PutsWritesString ==
    [][(OpBits = 15 /\ Vector = 34) =>
           /\ phase' \in {"puts", "fetch"}
           /\ PutsOutput'
           /\ registers'[R0] = registers[R0]
           /\ registers'[Cond] = registers[Cond]
           /\ registers'[Pc] = registers[Pc]
           /\ memory' = memory]_vars

\* PUTS from address 0 has printed "H", the low byte of the packed "Hi", and
\* "!", and returned at the zero word at address 3
C17_Witness ==
    /\ Completed
    /\ instr = 61474
    /\ registers[R0] = 0
    /\ address = 3
    /\ console = <<72, 72, 33>>

(***************************************************************************)
(* C18.  Every TRAP instruction sets R7 to the incremented PC before it    *)
(* dispatches on the vector, and a recognized trap other than HALT leaves  *)
(* PC at that value, so the instruction fetched next is the one that       *)
(* follows the TRAP.                                                       *)
(***************************************************************************)
C18_TrapSavesPcAndReturns ==
    [][/\ Executing(15) =>
              /\ registers'[R7] = registers[Pc]
              /\ registers'[Pc] = registers[Pc]
       /\ phase \in {"puts", "putsp"} =>
              /\ registers'[R7] = registers[R7]
              /\ registers'[Pc] = registers[Pc]
       /\ (phase = "fetch" /\ phase' = "exec" /\ steps > 0
             /\ OpBits = 15 /\ Vector \in 32 .. 36) =>
              /\ registers[R7] = registers[Pc]
              /\ instr' = mem_read(memory, registers[R7])]_vars

\* OUT as the second instruction has returned: R7 and PC are both 0x3002
C18_Witness ==
    /\ Completed
    /\ instr = 61473
    /\ steps = 2
    /\ registers[R7] = PC_START + 2
    /\ registers[Pc] = PC_START + 2

(***************************************************************************)
(* C19.  JSRR (opcode JSR with bit 11 = 0) sets PC to the value BaseR      *)
(* (bits [8:6]) held at the start of the instruction, for every BaseR in   *)
(* R0..R7, BaseR = R7 included: the old R7 is the jump target while R7     *)
(* receives the return address.                                            *)
(***************************************************************************)
C19_JsrrJumpsToOldBase ==
    [][(Executing(4) /\ Bit(instr, 11) = 0) =>
           /\ registers'[Pc] = registers[Field(instr, 6, 3)]
           /\ registers'[R7] = registers[Pc]]_vars

(***************************************************************************)
(* The decode of one instruction word on its own: the opcode first, then   *)
(* the three register fields the handlers unwrap.                          *)
(***************************************************************************)
\* any 16-bit word has been fetched
InitDecode ==
    /\ memory = <<>>
    /\ registers = [r \in 0 .. (REGISTER_COUNT - 1) |-> 0]
    /\ instr \in 0 .. (MEMORY_MAX - 1)
    /\ address = 0
    /\ console = <<>>
    /\ phase = "decode"
    /\ steps = 0

\* Err(_) => break on the opcode; unwrap() on the register fields
DecodeWord ==
    /\ phase = "decode"
    /\ phase' = IF op = Err THEN "halted"
                ELSE IF {DR, SR1, SR2} \subseteq 0 .. (REGISTER_COUNT - 1)
                     THEN "exec"
                     ELSE "panicked"
    /\ UNCHANGED <<memory, registers, instr, address, console, steps>>

NextDecode == DecodeWord

SpecDecode == InitDecode /\ [][NextDecode]_vars

(***************************************************************************)
(* C20.  Decoding never fails for any 16-bit instruction word: bits        *)
(* [15:12] map to one of the 16 opcodes, so the decode-error exit of the   *)
(* loop is never taken, and every 3-bit register field maps to one of      *)
(* R0..R7, never to PC or COND.                                            *)
(***************************************************************************)
C20_DecodeNeverFails ==
    /\ op \in {OpCodeNames[i] : i \in 1 .. 16}
    /\ op = OpCodeNames[OpBits + 1]
    /\ {DR, SR1, SR2} \subseteq R0 .. R7
    /\ DR = Field(instr, 9, 3) /\ SR1 = Field(instr, 6, 3) /\ SR2 = Field(instr, 0, 3)
    /\ phase \in {"decode", "exec"}

\* the word 0xFFFF has been decoded: a TRAP, with all three fields R7
C20_Witness == phase = "exec" /\ instr = 65535 /\ op = "Trap" /\ DR = R7
====
